---- MODULE Spec2Model ----
(***************************************************************************)
(* The Conan recipe of sparrow (conanfile.py) and of its test package      *)
(* (conan_test_package/conanfile.py), as a state machine.                  *)
(*                                                                         *)
(* One recipe evaluation is one behaviour: the settings, the package       *)
(* version and the option values are fixed at the start, and the recipe's  *)
(* methods then run one after the other.  Each method is a pure operator   *)
(* (named as in the source) and an action that applies it.  The recipe     *)
(* declares required_conan_version = ">=2.0"; the methods run in the order *)
(* in which Conan 2 calls them: config_options, configure, requirements,   *)
(* build_requirements, validate, generate, build, package, package_info,   *)
(* and last the test package's test.                                       *)
(***************************************************************************)
EXTENDS Naturals, Sequences, FiniteSets, TLC

VARIABLES
    pc,               \* the method that runs next, or "done" / "aborted"
    executed,         \* the methods that ran to their end
    os,               \* settings.os
    compiler,         \* settings.compiler
    compiler_version, \* settings.compiler.version, as its dotted items
    cppstd,           \* settings.compiler.cppstd, "" when not set
    build_type,       \* settings.build_type
    version,          \* self.version as its dotted items, <<>> when None
    given,            \* the option values handed in: defaults with overrides
    options,          \* self.options: the options present, with their values
    error,            \* the exception that ended the evaluation, or "none"
    requires,         \* the edges declared by requires / test_requires / tool_requires
    tc_variables,     \* CMakeToolchain.variables written by generate
    components,       \* cpp_info.components written by package_info
    can_run,          \* test package: can_run(self)
    json_reader_test_exists, \* test package: the secondary executable is on disk
    test_runs,        \* test package: the executables run, in order
    exit_code,        \* test package: the status of the process
    passes,           \* option resolutions completed before the current one
    resolved          \* the option set the first resolution gave

vars == <<pc, executed, os, compiler, compiler_version, cppstd, build_type,
          version, given, options, error, requires, tc_variables, components,
          can_run, json_reader_test_exists, test_runs, exit_code, passes,
          resolved>>

----------------------------------------------------------------------------
(* Bounds of the model.                                                    *)

\* compiler majors run from the family's minimum - MajorSpread to + MajorSpread
MajorSpread == 1
\* a compiler version is <<major>> or <<major, minor>>, minor in 0..MaxMinor
MaxMinor == 1
\* each item of a package version is in 0..MaxVersionItem
MaxVersionItem == 3
\* how many times option resolution is applied again to its own result
MaxPasses == 2

----------------------------------------------------------------------------
(* The recipe's declarations.                                              *)

OptionNames ==
    {"shared", "fPIC", "use_date_polyfill", "build_tests", "build_benchmarks",
     "generate_documentation", "export_json_reader"}

default_options ==
    [n \in OptionNames |-> IF n = "fPIC" THEN TRUE ELSE FALSE]

min_cppstd == 20

compilers_minimum_version ==
    [f \in {"apple-clang", "clang", "gcc", "msvc"} |->
        CASE f = "apple-clang" -> <<16>>
          [] f = "clang"       -> <<18>>
          [] f = "gcc"         -> <<12>>
          [] f = "msvc"        -> <<194>>]

----------------------------------------------------------------------------
(* conan.tools.scm.Version: the dotted items with the trailing zeros       *)
(* dropped, ordered as tuples.                                             *)

RECURSIVE NonzeroItems(_)
NonzeroItems(v) ==
    IF v # <<>> /\ v[Len(v)] = 0
    THEN NonzeroItems(SubSeq(v, 1, Len(v) - 1))
    ELSE v

RECURSIVE TupleLess(_, _)
TupleLess(a, b) ==
    IF b = <<>> THEN FALSE
    ELSE IF a = <<>> THEN TRUE
    ELSE IF a[1] # b[1] THEN a[1] < b[1]
    ELSE TupleLess(Tail(a), Tail(b))

VersionLessEq(a, b) ==
    TupleLess(NonzeroItems(a), NonzeroItems(b)) \/ NonzeroItems(a) = NonzeroItems(b)

\* Version(a) < b
VersionLess(a, b) == TupleLess(NonzeroItems(a), NonzeroItems(b))

\* Version(a) >= b
VersionGreaterEq(a, b) == ~VersionLess(a, b)

----------------------------------------------------------------------------
(* Options: get_safe, del, rm_safe.                                        *)

get_safe(opts, name, default) ==
    IF name \in DOMAIN opts THEN opts[name] ELSE default

Without(opts, name) == [n \in (DOMAIN opts) \ {name} |-> opts[n]]

\* del self.options.<name>: the option must exist
del_option(opts, name) ==
    IF name \in DOMAIN opts
    THEN [options |-> Without(opts, name), error |-> "none"]
    ELSE [options |-> opts, error |-> "ConanException"]

\* self.options.rm_safe(name): absent is fine
rm_safe(opts, name) == [options |-> Without(opts, name), error |-> "none"]

----------------------------------------------------------------------------
(* config_options and configure.                                           *)

config_options_keeps_fPIC(o, opts) == [options |-> opts, error |-> "none"]

config_options(o, opts) ==
    IF o = "Windows"
    THEN del_option(opts, "fPIC")
    ELSE [options |-> opts, error |-> "none"]

configure_with_del(opts) ==
    IF opts["shared"]
    THEN del_option(opts, "fPIC")
    ELSE [options |-> opts, error |-> "none"]

configure(opts) ==
    IF opts["shared"]
    THEN rm_safe(opts, "fPIC")
    ELSE [options |-> opts, error |-> "none"]

----------------------------------------------------------------------------
(* requirements and build_requirements.                                    *)

Edge(ref, kind, th) == [ref |-> ref, kind |-> kind, transitive_headers |-> th]

Opt(b, s) == IF b THEN s ELSE <<>>

requirements_both_json(opts) ==
       Opt(get_safe(opts, "use_date_polyfill", FALSE),
           <<Edge("date/3.0.3", "requires", FALSE)>>)
    \o Opt(get_safe(opts, "export_json_reader", FALSE),
           <<Edge("nlohmann_json/3.12.0", "requires", TRUE)>>)
    \o Opt(get_safe(opts, "build_tests", FALSE),
           <<Edge("nlohmann_json/3.12.0", "test_requires", FALSE)>>)
    \o Opt(get_safe(opts, "build_tests", FALSE),
           <<Edge("doctest/2.4.11", "test_requires", FALSE),
             Edge("catch2/3.7.0", "test_requires", FALSE)>>)
    \o Opt(get_safe(opts, "build_benchmarks", FALSE),
           <<Edge("benchmark/1.9.4", "test_requires", FALSE)>>)

requirements_json_test_only(opts) ==
       Opt(get_safe(opts, "use_date_polyfill", FALSE),
           <<Edge("date/3.0.3", "requires", FALSE)>>)
    \o Opt(get_safe(opts, "export_json_reader", FALSE)
               \/ get_safe(opts, "build_tests", FALSE),
           <<Edge("nlohmann_json/3.12.0", "test_requires", FALSE)>>)
    \o Opt(get_safe(opts, "build_tests", FALSE),
           <<Edge("doctest/2.4.11", "test_requires", FALSE),
             Edge("catch2/3.7.0", "test_requires", FALSE)>>)
    \o Opt(get_safe(opts, "build_benchmarks", FALSE),
           <<Edge("benchmark/1.9.4", "test_requires", FALSE)>>)

requirements(opts) ==
       Opt(get_safe(opts, "use_date_polyfill", FALSE),
           <<Edge("date/3.0.3", "requires", FALSE)>>)
    \o (IF get_safe(opts, "export_json_reader", FALSE)
        THEN <<Edge("nlohmann_json/3.12.0", "requires", TRUE)>>
        ELSE IF get_safe(opts, "build_tests", FALSE)
        THEN <<Edge("nlohmann_json/3.12.0", "test_requires", FALSE)>>
        ELSE <<>>)
    \o Opt(get_safe(opts, "build_tests", FALSE),
           <<Edge("doctest/2.4.11", "test_requires", FALSE),
             Edge("catch2/3.7.0", "test_requires", FALSE)>>)
    \o Opt(get_safe(opts, "build_benchmarks", FALSE),
           <<Edge("benchmark/1.9.4", "test_requires", FALSE)>>)

build_requirements(opts) ==
       <<Edge("cmake/[>=3.28.1 <4.2.0]", "tool_requires", FALSE)>>
    \o Opt(get_safe(opts, "generate_documentation", FALSE),
           <<Edge("doxygen/1.9.4", "tool_requires", FALSE)>>)

----------------------------------------------------------------------------
(* validate.                                                               *)

\* check_min_cppstd reads the standard without its "gnu" prefix and puts the
\* century before it: 98 is 1998, every other one 20xx
CppstdYear(s) ==
    CASE s \in {"98", "gnu98"} -> 1998
      [] s \in {"11", "gnu11"} -> 2011
      [] s \in {"14", "gnu14"} -> 2014
      [] s \in {"17", "gnu17"} -> 2017
      [] s \in {"20", "gnu20"} -> 2020
      [] s \in {"23", "gnu23"} -> 2023

check_min_cppstd(std, minimum) == CppstdYear(std) >= 2000 + minimum

BelowMinimum_inclusive(family, ver) ==
    /\ family \in DOMAIN compilers_minimum_version
    /\ VersionLessEq(ver, compilers_minimum_version[family])

\* minimum_version and Version(self.settings.compiler.version) < minimum_version
BelowMinimum(family, ver) ==
    /\ family \in DOMAIN compilers_minimum_version
    /\ VersionLess(ver, compilers_minimum_version[family])

validate(family, ver, std) ==
    IF std # "" /\ ~check_min_cppstd(std, min_cppstd)
    THEN "ConanInvalidConfiguration"
    ELSE IF BelowMinimum(family, ver)
    THEN "ConanInvalidConfiguration"
    ELSE "none"

AfterValidate_continues(err) == "generate"

\* raise ConanInvalidConfiguration ends the evaluation
AfterValidate(err) == IF err = "none" THEN "generate" ELSE "aborted"

----------------------------------------------------------------------------
(* generate.                                                               *)

is_msvc(family) == family = "msvc"

generate_no_placeholders(opts, family) ==
    [n \in {"USE_DATE_POLYFILL", "BUILD_TESTS", "BUILD_BENCHMARKS",
            "CREATE_JSON_READER_TARGET"} |->
        CASE n = "USE_DATE_POLYFILL" -> get_safe(opts, "use_date_polyfill", FALSE)
          [] n = "BUILD_TESTS" -> get_safe(opts, "build_tests", FALSE)
          [] n = "BUILD_BENCHMARKS" -> get_safe(opts, "build_benchmarks", FALSE)
          [] n = "CREATE_JSON_READER_TARGET" ->
                 get_safe(opts, "export_json_reader", FALSE)]

generate(opts, family) ==
    LET copied ==
          [n \in {"USE_DATE_POLYFILL", "BUILD_TESTS", "BUILD_BENCHMARKS",
                  "CREATE_JSON_READER_TARGET"} |->
              CASE n = "USE_DATE_POLYFILL" ->
                     get_safe(opts, "use_date_polyfill", FALSE)
                [] n = "BUILD_TESTS" -> get_safe(opts, "build_tests", FALSE)
                [] n = "BUILD_BENCHMARKS" ->
                     get_safe(opts, "build_benchmarks", FALSE)
                [] n = "CREATE_JSON_READER_TARGET" ->
                     get_safe(opts, "export_json_reader", FALSE)]
    IN  IF is_msvc(family)
        THEN copied @@ ("USE_LARGE_INT_PLACEHOLDERS" :> TRUE)
        ELSE copied

----------------------------------------------------------------------------
(* package_info.                                                           *)

postfix_any_debug(bt, ver) == IF bt = "Debug" THEN "d" ELSE ""

postfix(bt, ver) ==
    IF bt = "Debug" /\ ver # <<>> /\ VersionGreaterEq(ver, <<1, 3, 0>>)
    THEN "d"
    ELSE ""

Component(libs, file_name, target_name, reqs) ==
    [libs |-> libs, cmake_file_name |-> file_name,
     cmake_target_name |-> target_name, requires |-> reqs]

sparrow_component(opts, bt, ver) ==
    Component(<<"sparrow" \o postfix(bt, ver)>>, "sparrow", "sparrow::sparrow",
              IF get_safe(opts, "use_date_polyfill", FALSE)
              THEN <<"date::date", "date::date-tz">>
              ELSE <<>>)

json_reader_component(opts, bt, ver) ==
    Component(<<"sparrow_json_reader" \o postfix(bt, ver)>>,
              "sparrow-json-reader", "sparrow::json_reader",
              <<"sparrow", "nlohmann_json::nlohmann_json">>)

package_info_always_json_reader(opts, bt, ver) ==
    ("sparrow" :> sparrow_component(opts, bt, ver))
        @@ ("json_reader" :> json_reader_component(opts, bt, ver))

package_info(opts, bt, ver) ==
    IF opts["export_json_reader"]
    THEN ("sparrow" :> sparrow_component(opts, bt, ver))
             @@ ("json_reader" :> json_reader_component(opts, bt, ver))
    ELSE ("sparrow" :> sparrow_component(opts, bt, ver))

----------------------------------------------------------------------------
(* The test package's test.                                                *)

test(run, exists) ==
    IF ~run THEN [runs |-> <<>>, exit_code |-> 0]
    ELSE IF exists
    THEN [runs |-> <<"standalone", "json_reader_test">>, exit_code |-> 0]
    ELSE [runs |-> <<"standalone">>, exit_code |-> 1]

----------------------------------------------------------------------------
(* The inputs of an evaluation.                                            *)

OperatingSystems == {"Windows", "Linux", "Macos"}

Families == {"apple-clang", "clang", "gcc", "msvc", "intel-cc"}

\* the majors tried for a family: around its minimum, or around 2021 for the
\* family the table does not know
Majors(f) ==
    LET base == IF f \in DOMAIN compilers_minimum_version
                THEN compilers_minimum_version[f][1] ELSE 2021
    IN  (base - MajorSpread) .. (base + MajorSpread)

CompilerVersions(f) ==
    {<<m>> : m \in Majors(f)} \cup {<<m, n>> : m \in Majors(f), n \in 0 .. MaxMinor}

Cppstds == {"", "14", "17", "gnu17", "20", "gnu20", "23"}

BuildTypes == {"Debug", "Release"}

Items == 0 .. MaxVersionItem

PackageVersions ==
    {<<>>} \cup {<<a>> : a \in Items} \cup {<<a, b>> : a \in Items, b \in Items}
           \cup {<<a, b, c>> : a \in Items, b \in Items, c \in Items}

\* defaults overridden by any choice of values
OptionAssignments ==
    {[n \in OptionNames |-> IF n \in DOMAIN ov THEN ov[n] ELSE default_options[n]] :
        ov \in UNION {[S -> BOOLEAN] : S \in SUBSET OptionNames}}

InitWith(OSs, Assignments, Toolchains, Stds, BTs, PVs) ==
    /\ pc = "config_options"
    /\ executed = {}
    /\ os \in OSs
    /\ \E t \in Toolchains : compiler = t[1] /\ compiler_version = t[2]
    /\ cppstd \in Stds
    /\ build_type \in BTs
    /\ version \in PVs
    /\ given \in Assignments
    /\ options = given
    /\ error = "none"
    /\ requires = <<>>
    /\ tc_variables = <<>>
    /\ components = <<>>
    /\ can_run = FALSE
    /\ json_reader_test_exists = FALSE
    /\ test_runs = <<>>
    /\ exit_code = 0
    /\ passes = 0
    /\ resolved = <<>>

----------------------------------------------------------------------------
(* The methods as steps.                                                   *)

Settings == <<os, compiler, compiler_version, cppstd, build_type, version, given>>
TestState == <<can_run, json_reader_test_exists, test_runs, exit_code>>
Resolution == <<passes, resolved>>

ConfigOptionsStep ==
    /\ pc = "config_options"
    /\ LET r == config_options(os, options) IN
         /\ options' = r.options
         /\ error' = r.error
         /\ pc' = IF r.error = "none" THEN "configure" ELSE "aborted"
         /\ executed' = IF r.error = "none"
                        THEN executed \cup {"config_options"} ELSE executed
    /\ UNCHANGED <<Settings, requires, tc_variables, components, TestState,
                   Resolution>>

ConfigureStep ==
    /\ pc = "configure"
    /\ LET r == configure(options) IN
         /\ options' = r.options
         /\ error' = r.error
         /\ pc' = IF r.error = "none" THEN "requirements" ELSE "aborted"
         /\ executed' = IF r.error = "none"
                        THEN executed \cup {"configure"} ELSE executed
    /\ UNCHANGED <<Settings, requires, tc_variables, components, TestState,
                   Resolution>>

RequirementsStep ==
    /\ pc = "requirements"
    /\ requires' = requires \o requirements(options)
    /\ pc' = "build_requirements"
    /\ executed' = executed \cup {"requirements"}
    /\ UNCHANGED <<Settings, options, error, tc_variables, components,
                   TestState, Resolution>>

BuildRequirementsStep ==
    /\ pc = "build_requirements"
    /\ requires' = requires \o build_requirements(options)
    /\ pc' = "validate"
    /\ executed' = executed \cup {"build_requirements"}
    /\ UNCHANGED <<Settings, options, error, tc_variables, components,
                   TestState, Resolution>>

ValidateStep ==
    /\ pc = "validate"
    /\ error' = validate(compiler, compiler_version, cppstd)
    /\ pc' = AfterValidate(error')
    /\ executed' = IF error' = "none" THEN executed \cup {"validate"} ELSE executed
    /\ UNCHANGED <<Settings, options, requires, tc_variables, components,
                   TestState, Resolution>>

GenerateStep ==
    /\ pc = "generate"
    /\ tc_variables' = generate(options, compiler)
    /\ pc' = "build"
    /\ executed' = executed \cup {"generate"}
    /\ UNCHANGED <<Settings, options, error, requires, components, TestState,
                   Resolution>>

BuildStep ==
    /\ pc = "build"
    /\ pc' = "package"
    /\ executed' = executed \cup {"build"}
    /\ UNCHANGED <<Settings, options, error, requires, tc_variables, components,
                   TestState, Resolution>>

PackageStep ==
    /\ pc = "package"
    /\ pc' = "package_info"
    /\ executed' = executed \cup {"package"}
    /\ UNCHANGED <<Settings, options, error, requires, tc_variables, components,
                   TestState, Resolution>>

PackageInfoStep ==
    /\ pc = "package_info"
    /\ components' = package_info(options, build_type, version)
    /\ pc' = "test"
    /\ executed' = executed \cup {"package_info"}
    /\ UNCHANGED <<Settings, options, error, requires, tc_variables, TestState,
                   Resolution>>

\* whether the binaries can run here and whether json_reader_test was built
\* are facts of the environment, read when test runs
TestStep ==
    /\ pc = "test"
    /\ \E run \in BOOLEAN, exists \in BOOLEAN :
         LET r == test(run, exists) IN
           /\ can_run' = run
           /\ json_reader_test_exists' = exists
           /\ test_runs' = r.runs
           /\ exit_code' = r.exit_code
           /\ pc' = IF r.exit_code = 0 THEN "done" ELSE "exited"
    /\ executed' = executed \cup {"test"}
    /\ UNCHANGED <<Settings, options, error, requires, tc_variables, components,
                   Resolution>>

\* option resolution applied again to the option set it produced
ResolveAgainStep ==
    /\ pc = "requirements"
    /\ passes < MaxPasses
    /\ passes' = passes + 1
    /\ resolved' = IF passes = 0 THEN options ELSE resolved
    /\ pc' = "config_options"
    /\ UNCHANGED <<Settings, executed, options, error, requires, tc_variables,
                   components, TestState>>

Next ==
    \/ ConfigOptionsStep
    \/ ConfigureStep
    \/ RequirementsStep
    \/ BuildRequirementsStep
    \/ ValidateStep
    \/ GenerateStep
    \/ BuildStep
    \/ PackageStep
    \/ PackageInfoStep
    \/ TestStep

NextResolve ==
    \/ ConfigOptionsStep
    \/ ConfigureStep
    \/ ResolveAgainStep

----------------------------------------------------------------------------
(* Specifications: the same recipe under different sets of inputs.         *)

\* every family with every version of the model
AllToolchains == UNION {{<<f, v>> : v \in CompilerVersions(f)} : f \in Families}

\* every family one major below, at and above its minimum
AroundMinimum == UNION {{<<f, <<m>> >> : m \in Majors(f)} : f \in Families}

\* one accepted toolchain
OneToolchain == {<<"gcc", <<13>> >>}

\* every OS and option assignment, each family below, at and above its minimum
Init ==
    InitWith(OperatingSystems, OptionAssignments, AroundMinimum,
             {"", "17"}, BuildTypes, {<<1, 3, 0>>})

Spec == Init /\ [][Next]_vars

\* every toolchain, under the default options
InitValidate ==
    InitWith({"Linux", "Windows"}, {default_options}, AllToolchains,
             Cppstds, {"Release"}, {<<1, 3, 0>>})

SpecValidate == InitValidate /\ [][Next]_vars

\* every build type and package version, with and without the companion
InitPackageInfo ==
    InitWith({"Linux"},
             {[default_options EXCEPT !["export_json_reader"] = e] : e \in BOOLEAN},
             OneToolchain, {""}, BuildTypes, PackageVersions)

SpecPackageInfo == InitPackageInfo /\ [][Next]_vars

\* every OS and option assignment, resolved again and again
InitResolve ==
    InitWith(OperatingSystems, OptionAssignments, OneToolchain, {""},
             {"Release"}, {<<1, 3, 0>>})

SpecResolve == InitResolve /\ [][NextResolve]_vars

----------------------------------------------------------------------------
(* The claims.                                                             *)

Ran(m) == m \in executed

C1_MinimumMajor(f) ==
    CASE f = "apple-clang" -> 16
      [] f = "clang"       -> 18
      [] f = "gcc"         -> 12
      [] f = "msvc"        -> 194

C1_StandardOk == cppstd \in {"", "20", "gnu20", "23"}

C1_Validated == pc \in {"aborted", "generate"}

\* C1: with the language standard (if one is set) at least C++20, validate
\* rejects exactly the toolchains whose family is in the minimum-version table
\* with a version strictly below the entry: below is rejected, equal to the
\* minimum (12 or 12.0 for gcc) is accepted, a family without an entry is
\* accepted at any version.
C1_ValidateGate ==
    (C1_Validated /\ C1_StandardOk) =>
        /\ (pc = "aborted") <=>
              /\ compiler \in {"apple-clang", "clang", "gcc", "msvc"}
              /\ compiler_version[1] < C1_MinimumMajor(compiler)
        /\ (pc = "aborted") <=> (error = "ConanInvalidConfiguration")
        /\ (pc = "generate") <=> (error = "none")

C1_Witness ==
    /\ pc = "aborted"
    /\ compiler = "gcc"
    /\ compiler_version = <<11, 1>>
    /\ cppstd = "gnu20"
    /\ error = "ConanInvalidConfiguration"

C2_IsJson(e) == e.ref = "nlohmann_json/3.12.0"

C2_Json == SelectSeq(requires, C2_IsJson)

\* C2: requirements emits at most one nlohmann_json edge: with
\* export_json_reader one runtime edge with transitive headers and no test
\* edge, even with build_tests; with build_tests alone one test-only edge
\* without transitive headers; with neither, none.
C2_OneJsonEdge ==
    Ran("requirements") =>
        /\ Len(C2_Json) <= 1
        /\ options["export_json_reader"] =>
              C2_Json = << [ref |-> "nlohmann_json/3.12.0", kind |-> "requires",
                            transitive_headers |-> TRUE] >>
        /\ (~options["export_json_reader"] /\ options["build_tests"]) =>
              C2_Json = << [ref |-> "nlohmann_json/3.12.0",
                            kind |-> "test_requires",
                            transitive_headers |-> FALSE] >>
        /\ (~options["export_json_reader"] /\ ~options["build_tests"]) =>
              C2_Json = <<>>

C2_Witness ==
    /\ Ran("requirements")
    /\ options["export_json_reader"]
    /\ options["build_tests"]
    /\ Len(requires) >= 3

C3_Item(v, i) == IF i <= Len(v) THEN v[i] ELSE 0

C3_Suffixed ==
    /\ build_type = "Debug"
    /\ version # <<>>
    /\ \/ C3_Item(version, 1) > 1
       \/ C3_Item(version, 1) = 1 /\ C3_Item(version, 2) >= 3

\* C3: the library names carry the suffix "d" exactly when build_type is Debug
\* and the package version is present and at least 1.3.0; the core and the
\* companion library get the same suffix.
C3_DebugSuffix ==
    Ran("package_info") =>
        /\ components["sparrow"].libs =
              << IF C3_Suffixed THEN "sparrowd" ELSE "sparrow" >>
        /\ "json_reader" \in DOMAIN components =>
              components["json_reader"].libs =
                 << IF C3_Suffixed THEN "sparrow_json_readerd"
                    ELSE "sparrow_json_reader" >>

C3_Witness ==
    /\ Ran("package_info")
    /\ build_type = "Debug"
    /\ version = <<1, 2, 3>>
    /\ "json_reader" \in DOMAIN components
    /\ components["json_reader"].libs = <<"sparrow_json_reader">>

C4_Has(c, r) == \E i \in 1 .. Len(components[c].requires) : components[c].requires[i] = r

\* C4: package_info declares the core component alone when export_json_reader
\* is false and the core and the json_reader component when it is true; the
\* json_reader component requires the core component and nlohmann_json.
C4_Components ==
    /\ Ran("package_info") =>
          /\ DOMAIN components =
                IF options["export_json_reader"]
                THEN {"sparrow", "json_reader"} ELSE {"sparrow"}
          /\ options["export_json_reader"] =>
                /\ C4_Has("json_reader", "sparrow")
                /\ C4_Has("json_reader", "nlohmann_json::nlohmann_json")
    /\ ~Ran("package_info") => DOMAIN components = {}

C4_Witness ==
    /\ Ran("package_info")
    /\ ~options["export_json_reader"]
    /\ options["build_tests"]
    /\ DOMAIN components = {"sparrow"}

\* C5: after config_options and configure, fPIC is present exactly when the OS
\* is not Windows and shared is false; it is removed, not set to false; no
\* error is raised; every other option keeps the value it was given.
C5_fPICPruned ==
    /\ Ran("configure") =>
          /\ ("fPIC" \in DOMAIN options) <=> (os # "Windows" /\ ~given["shared"])
          /\ (DOMAIN options) \ {"fPIC"} = OptionNames \ {"fPIC"}
          /\ \A n \in DOMAIN options : options[n] = given[n]
    /\ ~Ran("configure") => (error = "none" /\ pc \in {"config_options", "configure"})

C5_Witness ==
    /\ Ran("configure")
    /\ os = "Windows"
    /\ given["shared"]
    /\ given["fPIC"]
    /\ "fPIC" \notin DOMAIN options

\* C6: the test runs standalone first; a missing json_reader_test ends the
\* process with a non-zero status when the companion component was built and
\* is no failure when it was not; a present json_reader_test is run.
C6_SecondaryOptional ==
    (Ran("test") /\ can_run) =>
        /\ test_runs # <<>> /\ test_runs[1] = "standalone"
        /\ json_reader_test_exists =>
              (test_runs = <<"standalone", "json_reader_test">> /\ exit_code = 0)
        /\ (~json_reader_test_exists /\ options["export_json_reader"]) =>
              exit_code # 0
        /\ (~json_reader_test_exists /\ ~options["export_json_reader"]) =>
              exit_code = 0

C7_Value(name) == IF name \in DOMAIN options THEN options[name] ELSE FALSE

\* C7: generate writes USE_DATE_POLYFILL, BUILD_TESTS, BUILD_BENCHMARKS and
\* CREATE_JSON_READER_TARGET, each with the value of its option (false for an
\* absent option), and USE_LARGE_INT_PLACEHOLDERS = true exactly for msvc.
C7_Parameters ==
    Ran("generate") =>
        /\ {"USE_DATE_POLYFILL", "BUILD_TESTS", "BUILD_BENCHMARKS",
            "CREATE_JSON_READER_TARGET"} \subseteq DOMAIN tc_variables
        /\ tc_variables["USE_DATE_POLYFILL"] = C7_Value("use_date_polyfill")
        /\ tc_variables["BUILD_TESTS"] = C7_Value("build_tests")
        /\ tc_variables["BUILD_BENCHMARKS"] = C7_Value("build_benchmarks")
        /\ tc_variables["CREATE_JSON_READER_TARGET"] = C7_Value("export_json_reader")
        /\ ("USE_LARGE_INT_PLACEHOLDERS" \in DOMAIN tc_variables) <=> (compiler = "msvc")
        /\ compiler = "msvc" => tc_variables["USE_LARGE_INT_PLACEHOLDERS"] = TRUE

C7_Witness ==
    /\ Ran("generate")
    /\ compiler = "msvc"
    /\ options["build_benchmarks"]
    /\ ~options["build_tests"]
    /\ tc_variables["USE_LARGE_INT_PLACEHOLDERS"]

C8_Again == passes >= 1

\* C8 as stated: resolving an already resolved option set gives the same
\* option set and raises no error, on every OS.
C8_Idempotent ==
    C8_Again =>
        /\ error = "none"
        /\ pc # "aborted"
        /\ pc = "requirements" => options = resolved

\* C8, amended: on every OS but Windows, resolving an already resolved option
\* set gives the same option set and raises no error; on Windows the second
\* config_options raises, because del needs the fPIC option that the first
\* resolution removed, and leaves the option set as it was.
C8_IdempotentOffWindows ==
    /\ (C8_Again /\ os # "Windows") =>
          /\ error = "none"
          /\ pc # "aborted"
          /\ pc = "requirements" => options = resolved
    /\ (C8_Again /\ os = "Windows" /\ pc # "config_options") =>
          /\ error = "ConanException"
          /\ pc = "aborted"
          /\ options = resolved

C8_Witness ==
    /\ passes = 2
    /\ os = "Linux"
    /\ given["shared"]
    /\ pc = "requirements"
    /\ "fPIC" \notin DOMAIN options
    /\ options = resolved

C9_Rejected == error = "ConanInvalidConfiguration"

C10_Ref(target) ==
    CASE target \in {"date::date", "date::date-tz"} -> "date/3.0.3"
      [] target = "nlohmann_json::nlohmann_json" -> "nlohmann_json/3.12.0"
      [] OTHER -> ""

C10_RuntimeEdge(ref) ==
    \E i \in 1 .. Len(requires) : requires[i].ref = ref /\ requires[i].kind = "requires"

\* C10: every external target a declared component requires belongs to a
\* package that requirements declared with self.requires (a runtime edge) for
\* the same options, and every sibling component it requires is declared.
C10_RequiresBacked ==
    Ran("package_info") =>
        \A c \in DOMAIN components :
            \A i \in 1 .. Len(components[c].requires) :
                LET r == components[c].requires[i] IN
                  IF C10_Ref(r) # ""
                  THEN C10_RuntimeEdge(C10_Ref(r))
                  ELSE r \in DOMAIN components

C10_Witness ==
    /\ Ran("package_info")
    /\ options["use_date_polyfill"]
    /\ options["export_json_reader"]
    /\ options["build_tests"]
    /\ Len(components["sparrow"].requires) = 2
    /\ "json_reader" \in DOMAIN components

====
